---- MODULE Spec2Model ----
(***************************************************************************)
(* A model of firego's streaming watch (watch.go): Firebase.Watch,         *)
(* Firebase.StopWatching, the read loop goroutine with its stop-signal     *)
(* watcher goroutine, bufio.Scanner driven by eventSplit, and the          *)
(* classification of frames into Events.                                   *)
(*                                                                         *)
(* Bytes are modelled as "words": a word is either the newline byte "\n"   *)
(* or a non-empty run of non-newline bytes ("event: ", "put", a JSON       *)
(* payload).  eventSplit, strings.Split and strings.Replace are computed   *)
(* on sequences of words exactly as the code computes them on bytes.       *)
(*                                                                         *)
(* fb.watching is read and written without synchronisation; the model      *)
(* interleaves the individual reads and writes of the goroutines, so every *)
(* order of a racing read and write is a behaviour.                        *)
(***************************************************************************)
EXTENDS Naturals, Sequences, FiniteSets, TLC

\* ------------------------------------------------------------------ bounds
\* Watch calls made on the client (each call brings its own channel).
MaxCalls == 2
\* Frames the server writes, over all response streams together.
MaxFrames == 2
\* Frames one Read of the response body can return at once.
MaxChunk == 2

\* Bytes of the data eventSplit is called with when checked on its own.
MaxLen == 4

\* The goroutines of the application that call Watch and StopWatching.
Callers == {"g1", "g2"}
Rank(t) == IF t = "g1" THEN 1 ELSE 2
\* A Watch call, its notifications channel and (when established) its
\* response, read loop and watcher are all named by the call's number.
Chans == 1..MaxCalls

\* ------------------------------------------------------------ wire format
NL == "\n"
PayloadA == "{\"path\":\"/a\",\"data\":5}"
PayloadNoPath == "{\"data\":5}"
PayloadBad == "{\"path\":"

\* One frame as the server writes it: the event line, for put and patch a
\* data line, and the blank line that ends the frame.
Frame(type, payload) ==
    IF payload = ""
    THEN <<"event: ", type, NL, NL>>
    ELSE <<"event: ", type, NL, "data: ", payload, NL, NL>>

\* The frames the server may write.
ServerFrames ==
    { Frame("put", PayloadA), Frame("put", PayloadBad), Frame("patch", PayloadA),
      Frame("keep-alive", ""), Frame("cancel", ""), Frame("auth_revoked", ""),
      Frame("custom", "") }

\* The runs explored.  With two callers racing, the server writes put and
\* cancel frames; with one caller, it writes every frame of ServerFrames.
\* In these a Read of the body returns whole frames.  In the third run a
\* Read may return any part of what the server has written (split): one
\* caller, one Watch call, put and keep-alive frames.
Scenarios ==
    { [callers |-> Callers, watches |-> MaxCalls, split |-> FALSE,
       frames |-> {Frame("put", PayloadA), Frame("cancel", "")}],
      [callers |-> {"g1"}, watches |-> MaxCalls, split |-> FALSE,
       frames |-> ServerFrames],
      [callers |-> {"g1"}, watches |-> 1, split |-> TRUE,
       frames |-> {Frame("put", PayloadA), Frame("keep-alive", "")}] }

\* k whole frames drawn from fs, one after the other.
RECURSIVE Chunks(_, _)
Chunks(fs, k) ==
    IF k = 0 THEN { <<>> }
    ELSE { f \o rest : f \in fs, rest \in Chunks(fs, k - 1) }

\* ------------------------------------------------------------- eventSplit
\* The for loop of eventSplit from byte i on; the result is advance.
RECURSIVE SplitAdvance(_, _, _)
SplitAdvance(data, i, found) ==
    IF i = Len(data) THEN i
    ELSE IF data[i + 1] = NL
         THEN IF found THEN i + 1 ELSE SplitAdvance(data, i + 1, TRUE)
         ELSE SplitAdvance(data, i + 1, FALSE)

\* A split function that ends the token at the first newline.
eventSplitAtNewline(data, atEOF) ==
    LET nls == {i \in 1..Len(data) : data[i] = NL}
        advance == IF nls = {} THEN Len(data)
                   ELSE CHOOSE i \in nls : \A j \in nls : i <= j
    IN  [advance |-> advance, token |-> SubSeq(data, 1, advance), err |-> "nil"]

\* A split function that asks for more data (advance 0, no token) when the
\* data has no blank line and the stream has not ended.
eventSplitNeedsBoundary(data, atEOF) ==
    LET advance == SplitAdvance(data, 0, FALSE)
        complete == advance >= 2 /\ data[advance] = NL /\ data[advance - 1] = NL
    IN  IF complete \/ atEOF
        THEN [advance |-> advance, token |-> SubSeq(data, 1, advance), err |-> "nil"]
        ELSE [advance |-> 0, token |-> <<>>, err |-> "nil"]

eventSplit(data, atEOF) ==
    LET advance == SplitAdvance(data, 0, FALSE)
    IN  [advance |-> advance, token |-> SubSeq(data, 1, advance), err |-> "nil"]

\* ------------------------------------------------- strings.Split / Replace
RECURSIVE IndexOf(_, _, _)
IndexOf(s, w, i) ==
    IF i > Len(s) THEN 0
    ELSE IF s[i] = w THEN i ELSE IndexOf(s, w, i + 1)

\* strings.Split(s, "\n")
RECURSIVE SplitLines(_)
SplitLines(s) ==
    LET i == IndexOf(s, NL, 1)
    IN  IF i = 0 THEN <<s>>
        ELSE <<SubSeq(s, 1, i - 1)>> \o SplitLines(SubSeq(s, i + 1, Len(s)))

\* strings.Replace(s, old, "", 1)
ReplaceFirst(s, old) ==
    LET i == IndexOf(s, old, 1)
    IN  IF i = 0 THEN s
        ELSE SubSeq(s, 1, i - 1) \o SubSeq(s, i + 1, Len(s))

\* The words of a line as the one Go string they are.
RECURSIVE Join(_)
Join(s) == IF s = <<>> THEN "" ELSE Head(s) \o Join(Tail(s))

\* json.Unmarshal into map[string]interface{} and the two lookups
\* data["path"].(string), data["data"].
JSONUnmarshal(text) ==
    CASE text = PayloadA ->
            [err |-> FALSE, pathIsString |-> TRUE, path |-> "/a", data |-> "5"]
      [] text = PayloadNoPath ->
            [err |-> FALSE, pathIsString |-> FALSE, path |-> "", data |-> "5"]
      [] OTHER ->
            [err |-> TRUE, pathIsString |-> FALSE, path |-> "", data |-> "nil"]

\* Event{Type: ...}: Path and Data at their zero values.
BaseEvent(type) == [Type |-> type, Path |-> "", Data |-> "nil"]

NoEvent == BaseEvent("")

\* ------------------------------------------------------------------ state
VARIABLES
    env,        \* the scenario of this run: its callers, the server's frames
    watching,   \* fb.watching
    tpc,        \* per caller: where it is inside Watch or StopWatching
    targ,       \* per caller: the call its Watch is for, or whose watcher took its stop signal
    calls,      \* Watch calls made so far
    ret,        \* per call: what Watch returned
    stopsInRow, \* StopWatching calls that returned one after the other (up to 2)
    lpc,        \* per call: where the read loop goroutine is
    wst,        \* per call: the stop-signal watcher goroutine
    sig,        \* per call: who sent the signal its watcher received
    body,       \* per call: resp.Body
    serr,       \* per call: the scanner's sticky read error
    buf,        \* per call: the scanner's buffered, unconsumed bytes
    late,       \* per call: an event cut from the buffer after a caller's stop closed the body
    event,      \* per call: the event being sent
    scanned,    \* per call: every token Scan has returned, in order
    received,   \* per call: every event sent on notifications, in order
    closes,     \* per call: how often notifications has been closed
    written,    \* frames the server has written so far
    wire,       \* per call: bytes the server has written that no Read has returned yet
    crashed,    \* the process has ended (log.Fatal or a panic)
    splitData,  \* eventSplit on its own: the data it is called with
    splitResult \* eventSplit on its own: atEOF and what it returned

vars == <<env, watching, tpc, targ, calls, ret, stopsInRow, lpc, wst, sig, body, serr, buf,
          late, event, scanned, received, closes, written, wire, crashed,
          splitData, splitResult>>

callerVars == <<env, tpc, targ, calls, ret, stopsInRow>>
loopVars == <<lpc, serr, buf, late, event, scanned, received, written, wire>>
splitVars == <<splitData, splitResult>>
watcherVars == <<wst, sig, body>>

\* Who sent a stop signal: a caller's StopWatching, or the StopWatching of
\* the cleanup of a read loop.
NoSignal == [caller |-> "", loop |-> 0]
FromCaller(t) == [caller |-> t, loop |-> 0]
FromLoop(c) == [caller |-> "", loop |-> c]

\* eventSplit has not been called on its own.
NoResult == [called |-> FALSE, atEOF |-> FALSE, advance |-> 0, token |-> <<>>, err |-> "nil"]

\* The client after construction, no call made yet.
ClientInit ==
    /\ watching = FALSE
    /\ tpc = [t \in Callers |-> "idle"]
    /\ targ = [t \in Callers |-> 0]
    /\ calls = 0
    /\ ret = [c \in Chans |-> "none"]
    /\ stopsInRow = 0
    /\ lpc = [c \in Chans |-> "none"]
    /\ wst = [c \in Chans |-> "none"]
    /\ sig = [c \in Chans |-> NoSignal]
    /\ body = [c \in Chans |-> "none"]
    /\ serr = [c \in Chans |-> "nil"]
    /\ buf = [c \in Chans |-> <<>>]
    /\ late = [c \in Chans |-> "no"]
    /\ event = [c \in Chans |-> NoEvent]
    /\ scanned = [c \in Chans |-> <<>>]
    /\ received = [c \in Chans |-> <<>>]
    /\ closes = [c \in Chans |-> 0]
    /\ written = 0
    /\ wire = [c \in Chans |-> <<>>]
    /\ crashed = "no"

Init ==
    /\ env \in Scenarios
    /\ ClientInit
    /\ splitData = <<>>
    /\ splitResult = NoResult

\* Callers keep nothing from one call to the next, so they are
\* interchangeable when idle: a call starts on the first idle caller.
CanCall(t) ==
    /\ tpc[t] = "idle"
    /\ \A u \in env.callers : Rank(u) < Rank(t) => tpc[u] # "idle"

Returned(op) ==
    stopsInRow' = IF op = "Stop" THEN (IF stopsInRow < 2 THEN stopsInRow + 1 ELSE 2) ELSE 0

\* ------------------------------------------------------------------ Watch
\* if fb.watching { close(notifications); return nil }
WatchDuplicate(t) ==
    /\ crashed = "no" /\ CanCall(t) /\ calls < env.watches
    /\ watching
    /\ calls' = calls + 1
    /\ closes' = [closes EXCEPT ![calls + 1] = @ + 1]
    /\ ret' = [ret EXCEPT ![calls + 1] = "nil"]
    /\ Returned("Watch")
    /\ UNCHANGED <<env, splitVars, watching, tpc, targ, loopVars, watcherVars, crashed>>

\* fb.makeRequest and fb.client.Do: either fails and Watch returns the
\* error, or the response is there.
MakeAndDoRequest(t) ==
    /\ crashed = "no" /\ CanCall(t) /\ calls < env.watches
    /\ calls' = calls + 1
    /\ \/ /\ ret' = [ret EXCEPT ![calls + 1] = "error"]
          /\ Returned("Watch")
          /\ UNCHANGED <<tpc, targ, body>>
       \/ /\ tpc' = [tpc EXCEPT ![t] = "w_set"]
          /\ targ' = [targ EXCEPT ![t] = calls + 1]
          /\ body' = [body EXCEPT ![calls + 1] = "open"]
          /\ UNCHANGED <<ret, stopsInRow>>
    /\ UNCHANGED <<env, splitVars, watching, loopVars, wst, sig, closes, crashed>>

\* A Watch that goes on to the request whatever the flag says.
WatchRequestAnyFlag(t) == MakeAndDoRequest(t)

\* A Watch that sets the flag before the request and leaves it set when the
\* request fails.
WatchRequestFlagFirst(t) ==
    /\ crashed = "no" /\ CanCall(t) /\ calls < env.watches
    /\ ~watching
    /\ watching' = TRUE
    /\ calls' = calls + 1
    /\ \/ /\ ret' = [ret EXCEPT ![calls + 1] = "error"]
          /\ Returned("Watch")
          /\ UNCHANGED <<tpc, targ, body>>
       \/ /\ tpc' = [tpc EXCEPT ![t] = "w_set"]
          /\ targ' = [targ EXCEPT ![t] = calls + 1]
          /\ body' = [body EXCEPT ![calls + 1] = "open"]
          /\ UNCHANGED <<ret, stopsInRow>>
    /\ UNCHANGED <<env, splitVars, loopVars, wst, sig, closes, crashed>>

\* The flag read false (the if of line 38 not taken), then the request.
WatchRequest(t) ==
    /\ ~watching
    /\ MakeAndDoRequest(t)

\* fb.watching = true; go func() {...}(); return nil
WatchEstablish(t) ==
    /\ crashed = "no" /\ tpc[t] = "w_set"
    /\ watching' = TRUE
    /\ lpc' = [lpc EXCEPT ![targ[t]] = "start"]
    /\ ret' = [ret EXCEPT ![targ[t]] = "nil"]
    /\ tpc' = [tpc EXCEPT ![t] = "idle"]
    /\ targ' = [targ EXCEPT ![t] = 0]
    /\ Returned("Watch")
    /\ UNCHANGED <<env, splitVars, calls, serr, buf, late, event, scanned, received,
                   written, wire, watcherVars, closes, crashed>>

\* ----------------------------------------------------------- StopWatching
\* The start of a StopWatching call: it goes on to the send if go is true,
\* and returns at once if not.
StopWatchingIf(t, go) ==
    /\ crashed = "no" /\ CanCall(t)
    /\ IF go
       THEN /\ tpc' = [tpc EXCEPT ![t] = "s_send"]
            /\ UNCHANGED stopsInRow
       ELSE /\ Returned("Stop")
            /\ UNCHANGED tpc
    /\ UNCHANGED <<env, splitVars, watching, targ, calls, ret, loopVars, watcherVars, closes, crashed>>

\* A StopWatching that signals without looking at the flag.
StopWatchingNoCheck(t) == StopWatchingIf(t, TRUE)

\* if fb.watching { ... }
StopWatching(t) == StopWatchingIf(t, watching)

\* fb.stopWatching <- struct{}{}: the channel is unbuffered, the send
\* completes with the receive of a watcher that is waiting.
StopSend(t) ==
    /\ crashed = "no" /\ tpc[t] = "s_send"
    /\ \E w \in Chans :
          /\ wst[w] = "waiting"
          /\ wst' = [wst EXCEPT ![w] = "closing"]
          /\ sig' = [sig EXCEPT ![w] = FromCaller(t)]
          /\ targ' = [targ EXCEPT ![t] = w]
    /\ tpc' = [tpc EXCEPT ![t] = "s_flip"]
    /\ UNCHANGED <<env, splitVars, watching, calls, ret, stopsInRow, loopVars, body, closes, crashed>>

\* fb.watching = false
StopFlip(t) ==
    /\ crashed = "no" /\ tpc[t] = "s_flip"
    /\ watching' = FALSE
    /\ tpc' = [tpc EXCEPT ![t] = "idle"]
    /\ targ' = [targ EXCEPT ![t] = 0]
    /\ Returned("Stop")
    /\ UNCHANGED <<env, splitVars, calls, ret, loopVars, watcherVars, closes, crashed>>

\* -------------------------------------------------------------- read loop
\* scanner := bufio.NewScanner(resp.Body); scanner.Split(eventSplit);
\* go func() { <-fb.stopWatching; resp.Body.Close() }()
LoopStart(c) ==
    /\ crashed = "no" /\ lpc[c] = "start"
    /\ wst' = [wst EXCEPT ![c] = "waiting"]
    /\ lpc' = [lpc EXCEPT ![c] = "scan"]
    /\ UNCHANGED <<watching, callerVars, splitVars, serr, buf, late, event, scanned,
                   received, written, wire, sig, body, closes, crashed>>

\* parts := strings.Split(scanner.Text(), "\n")
Parts(text) == SplitLines(text)

\* Type: strings.Replace(parts[0], "event: ", "", 1)
EventType(text) == Join(ReplaceFirst(Parts(text)[1], "event: "))

\* A loop body without the switch: the base event of every frame is sent.
ClassifyAllBare(text) ==
    [pc |-> "send", event |-> BaseEvent(EventType(text)), crash |-> "no"]

\* The switch on event.Type: where the loop goes, the event it is about to
\* send, and whether the process ends (parts[1] out of range and the failed
\* type assertion panic, a json error is log.Fatal).
Classify(text) ==
    LET type == EventType(text)
        parts == Parts(text)
    IN  CASE type \in {"put", "patch"} ->
                IF Len(parts) < 2
                THEN [pc |-> "scan", event |-> NoEvent, crash |-> "panic"]
                ELSE LET data == JSONUnmarshal(Join(ReplaceFirst(parts[2], "data: ")))
                     IN  IF data.err
                         THEN [pc |-> "scan", event |-> NoEvent, crash |-> "fatal"]
                         ELSE IF ~data.pathIsString
                         THEN [pc |-> "scan", event |-> NoEvent, crash |-> "panic"]
                         ELSE [pc |-> "send",
                               event |-> [Type |-> type, Path |-> data.path,
                                          Data |-> data.data],
                               crash |-> "no"]
          [] type = "keep-alive" ->
                [pc |-> "scan", event |-> NoEvent, crash |-> "no"]
          [] type = "cancel" ->
                [pc |-> "send_cancel", event |-> BaseEvent(type), crash |-> "no"]
          [] type = "auth_revoked" ->
                [pc |-> "scan", event |-> NoEvent, crash |-> "no"]
          [] OTHER ->
                [pc |-> "scan", event |-> NoEvent, crash |-> "no"]

\* scanner.Scan() returned true with the first token of data (the rest of
\* data stays buffered), and the loop body ran up to its send, if the case
\* of the token has one.
LoopBody(c, data, atEOF) ==
    LET r == eventSplit(data, atEOF)
        d == Classify(r.token)
        stopped == body[c] = "closed" /\ sig[c].caller # ""
    IN  /\ buf' = [buf EXCEPT ![c] = SubSeq(data, r.advance + 1, Len(data))]
        /\ scanned' = [scanned EXCEPT ![c] = Append(@, r.token)]
        /\ lpc' = [lpc EXCEPT ![c] = d.pc]
        /\ event' = [event EXCEPT ![c] = d.event]
        /\ crashed' = d.crash
        /\ late' = [late EXCEPT ![c] =
                       IF stopped /\ d.pc \in {"send", "send_cancel"} /\ @ = "no"
                       THEN "cut" ELSE @]

\* scanner.Scan() with bytes in the buffer: the split function is called on
\* them without a Read (also when the body has been closed meanwhile) and,
\* eventSplit returning a token for any non-empty data, Scan returns true.
ScanBuffered(c) ==
    /\ crashed = "no" /\ lpc[c] = "scan"
    /\ buf[c] # <<>>
    /\ LoopBody(c, buf[c], serr[c] # "nil")
    /\ UNCHANGED <<watching, callerVars, splitVars, serr, received, written, wire, watcherVars, closes>>

\* scanner.Scan() with an empty buffer: Read on the open body returns
\* bytes the server has written: what is left on the wire and up to
\* MaxChunk frames written since, all of it, or any part of it when the run
\* splits reads.
ScanRead(c) ==
    /\ crashed = "no" /\ lpc[c] = "scan"
    /\ buf[c] = <<>> /\ serr[c] = "nil" /\ body[c] = "open"
    /\ \E k \in 0..MaxChunk :
          /\ written + k <= MaxFrames
          /\ written' = written + k
          /\ \E chunk \in Chunks(env.frames, k) :
                LET avail == wire[c] \o chunk
                IN  \E n \in 1..Len(avail) :
                       /\ ~env.split => n = Len(avail)
                       /\ wire' = [wire EXCEPT ![c] = SubSeq(avail, n + 1, Len(avail))]
                       /\ LoopBody(c, SubSeq(avail, 1, n), FALSE)
    /\ UNCHANGED <<watching, callerVars, splitVars, serr, received, watcherVars, closes>>

\* scanner.Scan() with an empty buffer and a Read that fails: the stream
\* ended or broke (io.EOF or a network error, which differ only in the
\* line logged at the end), or the body was closed by the watcher.  Scan
\* returns false and the for loop is left.
ScanEnd(c) ==
    /\ crashed = "no" /\ lpc[c] = "scan"
    /\ buf[c] = <<>>
    /\ \/ /\ body[c] = "open"
          /\ serr' = [serr EXCEPT ![c] = "EOF"]
       \/ /\ body[c] = "closed"
          /\ serr' = [serr EXCEPT ![c] = "closed"]
    /\ lpc' = [lpc EXCEPT ![c] = "cleanup"]
    /\ UNCHANGED <<watching, callerVars, splitVars, buf, late, event, scanned,
                   received, written, wire, watcherVars, closes, crashed>>

\* notifications <- event, in case "put", "patch" (the loop goes on) and in
\* case "cancel" (break scanning).
Send(c) ==
    /\ crashed = "no" /\ lpc[c] \in {"send", "send_cancel"}
    /\ received' = [received EXCEPT ![c] = Append(@, event[c])]
    /\ event' = [event EXCEPT ![c] = NoEvent]
    /\ lpc' = [lpc EXCEPT ![c] = IF lpc[c] = "send_cancel" THEN "cleanup" ELSE "scan"]
    /\ late' = [late EXCEPT ![c] = IF @ = "cut" THEN "sent" ELSE @]
    /\ UNCHANGED <<watching, callerVars, splitVars, serr, buf, scanned,
                   written, wire, watcherVars, closes, crashed>>

\* fb.StopWatching() of the loop's cleanup: if fb.watching
CleanupCheck(c) ==
    /\ crashed = "no" /\ lpc[c] = "cleanup"
    /\ lpc' = [lpc EXCEPT ![c] = IF watching THEN "c_send" ELSE "close"]
    /\ UNCHANGED <<watching, callerVars, splitVars, serr, buf, late, event, scanned,
                   received, written, wire, watcherVars, closes, crashed>>

\* ... fb.stopWatching <- struct{}{}
CleanupSend(c) ==
    /\ crashed = "no" /\ lpc[c] = "c_send"
    /\ \E w \in Chans :
          /\ wst[w] = "waiting"
          /\ wst' = [wst EXCEPT ![w] = "closing"]
          /\ sig' = [sig EXCEPT ![w] = FromLoop(c)]
    /\ lpc' = [lpc EXCEPT ![c] = "c_flip"]
    /\ UNCHANGED <<watching, callerVars, splitVars, serr, buf, late, event, scanned,
                   received, written, wire, body, closes, crashed>>

\* ... fb.watching = false
CleanupFlip(c) ==
    /\ crashed = "no" /\ lpc[c] = "c_flip"
    /\ watching' = FALSE
    /\ lpc' = [lpc EXCEPT ![c] = "close"]
    /\ UNCHANGED <<callerVars, splitVars, serr, buf, late, event, scanned,
                   received, written, wire, watcherVars, closes, crashed>>

\* close(notifications); closing a closed channel panics.
Close(c) ==
    /\ crashed = "no" /\ lpc[c] = "close"
    /\ closes' = [closes EXCEPT ![c] = @ + 1]
    /\ crashed' = IF closes[c] > 0 THEN "panic" ELSE "no"
    /\ lpc' = [lpc EXCEPT ![c] = "done"]
    /\ UNCHANGED <<watching, callerVars, splitVars, serr, buf, late, event, scanned,
                   received, written, wire, watcherVars>>

\* ---------------------------------------------------------------- watcher
\* resp.Body.Close(), after <-fb.stopWatching has received.
WatcherClose(w) ==
    /\ crashed = "no" /\ wst[w] = "closing"
    /\ body' = [body EXCEPT ![w] = "closed"]
    /\ wst' = [wst EXCEPT ![w] = "done"]
    /\ UNCHANGED <<watching, callerVars, splitVars, loopVars, sig, closes, crashed>>

\* ------------------------------------------------------------------- spec
Next ==
    \/ \E t \in env.callers : WatchDuplicate(t)
    \/ \E t \in env.callers : WatchRequest(t)
    \/ \E t \in env.callers : WatchEstablish(t)
    \/ \E t \in env.callers : StopWatching(t)
    \/ \E t \in env.callers : StopSend(t)
    \/ \E t \in env.callers : StopFlip(t)
    \/ \E c \in Chans : LoopStart(c)
    \/ \E c \in Chans : ScanBuffered(c)
    \/ \E c \in Chans : ScanRead(c)
    \/ \E c \in Chans : ScanEnd(c)
    \/ \E c \in Chans : Send(c)
    \/ \E c \in Chans : CleanupCheck(c)
    \/ \E c \in Chans : CleanupSend(c)
    \/ \E c \in Chans : CleanupFlip(c)
    \/ \E c \in Chans : Close(c)
    \/ \E w \in Chans : WatcherClose(w)

Spec == Init /\ [][Next]_vars

\* ------------------------------------------------------ eventSplit alone
\* The bytes of the data: the newline and two others.
Bytes == {NL, "a", "b"}

\* Every data of at most MaxLen bytes.
ByteSeqs == UNION { [1..n -> Bytes] : n \in 0..MaxLen }

\* No caller, no server: only the split function runs.
NoClient == [callers |-> {}, watches |-> 0, split |-> FALSE, frames |-> {}]

SplitInit ==
    /\ env = NoClient
    /\ ClientInit
    /\ splitData \in ByteSeqs
    /\ splitResult = NoResult

\* advance, token, err := eventSplit(data, atEOF)
ApplySplit(atEOF) ==
    /\ ~splitResult.called
    /\ LET r == eventSplit(splitData, atEOF)
       IN  splitResult' = [called |-> TRUE, atEOF |-> atEOF, advance |-> r.advance,
                           token |-> r.token, err |-> r.err]
    /\ UNCHANGED <<env, watching, tpc, targ, calls, ret, stopsInRow, loopVars,
                   watcherVars, closes, crashed, splitData>>

SplitNext == \E atEOF \in BOOLEAN : ApplySplit(atEOF)

SplitSpec == SplitInit /\ [][SplitNext]_vars

\* The places of data where a blank line is: a newline followed by a newline.
Boundaries(data) == {i \in 1..(Len(data) - 1) : data[i] = NL /\ data[i + 1] = NL}

\* -------------------------------------------------------------- vocabulary
\* The read loop of call c is running: started and still inside its for loop.
Reading(c) == lpc[c] \in {"start", "scan", "send", "send_cancel"}

\* The read loop of call c has left its for loop.
Exited(c) == lpc[c] \in {"cleanup", "c_send", "c_flip", "close", "done"}

\* Watch call c found no watch active and its request succeeded.
Established(c) == lpc[c] # "none"

\* Nothing more happens unless the application makes another call: every
\* caller is idle or blocked in its send, every loop is done or blocked in
\* the send of its cleanup, no watcher is about to close its body, and the
\* blocked sends have no watcher to receive them.
Settled ==
    /\ crashed = "no"
    /\ \A t \in env.callers : tpc[t] \in {"idle", "s_send"}
    /\ \A c \in Chans : lpc[c] \in {"none", "done", "c_send"} /\ wst[c] # "closing"
    /\ ((\E t \in env.callers : tpc[t] = "s_send") \/ (\E c \in Chans : lpc[c] = "c_send"))
          => \A w \in Chans : wst[w] # "waiting"

\* The events the loop's switch sends for a list of tokens, in order.
RECURSIVE Forwarded(_)
Forwarded(tokens) ==
    IF tokens = <<>> THEN <<>>
    ELSE LET d == Classify(Head(tokens))
         IN  (IF d.crash = "no" /\ d.pc \in {"send", "send_cancel"}
              THEN <<d.event>> ELSE <<>>) \o Forwarded(Tail(tokens))

\* ------------------------------------------------------------------ claims
\* C1: at most one watch is open per client at a time: in every reachable
\* state at most one read loop of the client is running with an open
\* response stream.
C1_AtMostOneOpenWatch ==
    Cardinality({c \in Chans : Reading(c) /\ body[c] = "open"}) <= 1

\* C2: a Watch call made while a watch is active closes the channel it was
\* given at once, returns nil, issues no request and starts no read loop,
\* and changes nothing of the watch that is active: its channel stays open
\* and its loop goes on.  (With one caller, a watch whose loop is reading
\* and whose watcher has received no stop signal has the flag true, so a
\* second Watch in that state is such a call.)
C2_SecondWatchClosesOnlyItsChannel ==
    /\ [](\A c \in Chans :
            (env.callers = {"g1"} /\ Reading(c) /\ sig[c] = NoSignal) => watching)
    /\ [][(watching /\ calls' = calls + 1) =>
            /\ closes' = [closes EXCEPT ![calls + 1] = 1]
            /\ ret' = [ret EXCEPT ![calls + 1] = "nil"]
            /\ UNCHANGED <<watching, tpc, targ, lpc, wst, sig, body, serr, buf, late,
                           event, scanned, received, written, wire, crashed>>]_vars

\* A duplicate call has closed its channel and started nothing, while the
\* first watch is open, has received an event and is sending the next.
C2_Witness ==
    \E c1, c2 \in Chans :
        /\ c1 < c2
        /\ lpc[c1] = "send" /\ closes[c1] = 0 /\ Len(received[c1]) = 1
        /\ ret[c2] = "nil" /\ closes[c2] = 1 /\ lpc[c2] = "none" /\ body[c2] = "none"

\* C3: StopWatching is idempotent.  A call made with the flag false never
\* goes on to the send (the one place it could block), returns in its first
\* step and changes no state of the client; and when the last call that
\* returned was a StopWatching and no call is in progress the flag is
\* false, so a second call in a row is such a call.
C3_StopWatchingIdempotent ==
    /\ []((stopsInRow >= 1 /\ \A t \in env.callers : tpc[t] = "idle") => ~watching)
    /\ [][\A t \in env.callers :
            (tpc[t] = "idle" /\ tpc'[t] \in {"s_send", "s_flip"}) => watching]_vars
    /\ [][(~watching /\ tpc' = tpc /\ stopsInRow' # 0 /\ stopsInRow' # stopsInRow) =>
            UNCHANGED <<watching, targ, calls, ret, lpc, wst, sig, body, serr, buf,
                        late, event, scanned, received, closes, written, wire, crashed>>]_vars

\* One caller: a StopWatching that signalled a watcher has returned, and
\* the next call, again a StopWatching, has returned too.
C3_Witness ==
    /\ env.callers = {"g1"} /\ stopsInRow = 2 /\ tpc["g1"] = "idle"
    /\ \E c \in Chans : sig[c] = FromCaller("g1")

\* C4: whenever the read loop exits (scan error, end of stream, cancel
\* event, cancellation by StopWatching) the teardown runs: no channel is
\* closed twice, a loop that is done has closed its channel, and once
\* nothing more can happen without a new call of the application, every
\* loop that has left its for loop has closed its channel and the flag is
\* false.
C4_TeardownAfterEveryExit ==
    \A c \in Chans :
        /\ closes[c] <= 1
        /\ lpc[c] = "done" => closes[c] = 1
        /\ (Exited(c) /\ Settled) => (closes[c] = 1 /\ ~watching)

\* The event the loop of call c is blocked sending, if any.
Pending(c) == IF lpc[c] \in {"send", "send_cancel"} THEN <<event[c]>> ELSE <<>>

\* The sender of the stop signal that the watcher of call c received has
\* gone on to set fb.watching = false.
SenderFlipped(c) ==
    /\ sig[c].caller # "" =>
          ~(tpc[sig[c].caller] = "s_flip" /\ targ[sig[c].caller] = c)
    /\ sig[c].loop # 0 => lpc[sig[c].loop] # "c_flip"

\* Order: the events received on a channel, then the one being sent, are
\* the events of the frames parsed so far, in the order parsed, none lost,
\* none twice.
InParseOrder ==
    \A c \in Chans : received[c] \o Pending(c) = Forwarded(scanned[c])

\* Close after the events: a watch's channel is closed only when its loop
\* is done and every event of the watch has been sent.
CloseAfterEvents ==
    \A c \in Chans :
        (Established(c) /\ closes[c] > 0) =>
            (lpc[c] = "done" /\ received[c] = Forwarded(scanned[c]))

\* Close after the stop: when the loop left because its body was closed on
\* a stop signal, the channel is closed only after the signal was received,
\* the body closed and the flag flipped by the signal's sender.
CloseAfterStop ==
    \A c \in Chans :
        (closes[c] > 0 /\ serr[c] = "closed") =>
            (sig[c] # NoSignal /\ body[c] = "closed" /\ wst[c] = "done"
             /\ SenderFlipped(c))

\* C5: events are forwarded in exactly the order their frames are parsed,
\* none lost or duplicated; the channel is closed after every event of the
\* watch has been sent and, when StopWatching caused the exit, after the
\* stop signal has been fully processed (received, stream closed, flag
\* flipped).
C5_OrderedThenClosed == InParseOrder /\ CloseAfterEvents /\ CloseAfterStop

\* C6: when a caller's StopWatching stops a watch mid-stream, the response
\* stream is closed, no event cut from the scanner's buffer after that is
\* forwarded, and the channel is closed exactly once.
C6_StopForwardsNothingMore ==
    \A c \in Chans :
        /\ late[c] # "sent"
        /\ closes[c] <= 1
        /\ (sig[c].caller # "" /\ Settled) =>
              (body[c] = "closed" /\ lpc[c] = "done" /\ closes[c] = 1)

\* C7: if building or executing the request fails, Watch returns the error
\* and no watch is started: the call never has a read loop, a stop-signal
\* watcher, a response body or a closed channel, and the step that returns
\* the error is taken with the flag false and leaves it false (nothing but
\* the call's result changes), so the flag does not make a later Watch a
\* duplicate.
C7_FailedRequestStartsNothing ==
    /\ [](\A c \in Chans :
            ret[c] = "error" =>
                /\ lpc[c] = "none" /\ wst[c] = "none" /\ body[c] = "none"
                /\ closes[c] = 0 /\ scanned[c] = <<>> /\ received[c] = <<>>)
    /\ [][\A c \in Chans :
            (ret[c] # "error" /\ ret'[c] = "error") =>
                /\ ~watching /\ ~watching'
                /\ UNCHANGED <<tpc, targ, lpc, wst, sig, body, serr, buf, late, event,
                               scanned, received, closes, written, wire, crashed>>]_vars

\* The first Watch failed on its request; the next Watch was not taken for
\* a duplicate: its channel is open and its read loop is scanning.
C7_Witness ==
    /\ ret[1] = "error" /\ lpc[1] = "none"
    /\ ret[2] = "nil" /\ lpc[2] = "scan" /\ closes[2] = 0 /\ watching

\* Token k of the tokens scanned by the loop of call c is a cancel frame.
IsCancel(c, k) == EventType(scanned[c][k]) = "cancel"

\* C8: a cancel frame is terminal.  Its bare event (empty path, nil data)
\* is forwarded and is the last event of the watch, no frame is parsed or
\* forwarded after it, and the channel is then closed: once nothing more
\* can happen without a new call, a watch that has received the cancel
\* event has its channel closed, exactly once.
C8_CancelIsTerminal ==
    \A c \in Chans :
        /\ \A k \in 1..Len(scanned[c]) :
              IsCancel(c, k) =>
                  /\ k = Len(scanned[c])
                  /\ lpc[c] # "scan"
                  /\ LET sent == received[c] \o Pending(c)
                     IN  sent # <<>> /\ sent[Len(sent)] = BaseEvent("cancel")
        /\ \A i \in 1..Len(received[c]) :
              received[c][i].Type = "cancel" => i = Len(received[c])
        /\ closes[c] <= 1
        /\ (received[c] # <<>> /\ received[c][Len(received[c])].Type = "cancel"
              /\ Settled) => closes[c] = 1

\* The event types the read loop's switch has a case for.
KnownTypes == {"put", "patch", "keep-alive", "cancel", "auth_revoked"}

\* The events forwarded so far by the loop of call c, the one being sent
\* included.
Sent(c) == received[c] \o Pending(c)

\* C9: a frame whose type is none of put, patch, keep-alive, cancel,
\* auth_revoked is forwarded as an event carrying that type verbatim and no
\* payload, and the loop continues: every such token scanned has its bare
\* event among the events forwarded, and the loop has not left on it.
C9_UnknownTypeForwarded ==
    \A c \in Chans :
        \A k \in 1..Len(scanned[c]) :
            EventType(scanned[c][k]) \notin KnownTypes =>
                /\ \E i \in 1..Len(Sent(c)) :
                      Sent(c)[i] = BaseEvent(EventType(scanned[c][k]))
                /\ (k = Len(scanned[c]) /\ crashed = "no") => Reading(c)

\* C10: an auth_revoked frame is handled like cancel: its event is
\* forwarded, it is the last frame the loop parses, and the loop then
\* terminates and tears the watch down.
C10_AuthRevokedTerminal ==
    \A c \in Chans :
        \A k \in 1..Len(scanned[c]) :
            EventType(scanned[c][k]) = "auth_revoked" =>
                /\ k = Len(scanned[c])
                /\ lpc[c] # "scan"
                /\ Sent(c) # <<>>
                /\ Sent(c)[Len(Sent(c))] = BaseEvent("auth_revoked")

\* ----------------------------------------------------- claims (continued)
\* A watcher is waiting for the stop signal, or one is about to be started.
Listening ==
    \/ \E w \in Chans : wst[w] = "waiting" \/ lpc[w] = "start"
    \/ \E u \in env.callers : tpc[u] = "w_set"

\* C11: a StopWatching made when no read loop listens on the stop signal,
\* as after the loop has left on its own, does not deadlock: a call that
\* starts when no watcher is waiting for the signal, and none is about to
\* be started, returns without going on to the send.
C11_StopWithoutListenerReturns ==
    [][\A t \in env.callers :
          (tpc[t] = "idle" /\ tpc'[t] = "s_send") => Listening]_vars

\* C12: for every data with exactly one blank-line boundary, eventSplit
\* returns as token the bytes up to and including the boundary, that many
\* bytes as advance, and a nil error.
C12_OneBoundaryFrame ==
    (splitResult.called /\ Cardinality(Boundaries(splitData)) = 1) =>
        LET b == CHOOSE i \in Boundaries(splitData) : TRUE
        IN  /\ splitResult.token = SubSeq(splitData, 1, b + 1)
            /\ splitResult.advance = b + 1
            /\ splitResult.err = "nil"

\* eventSplit was called on "a\n\nb" and returned "a\n\n".
C12_Witness ==
    /\ splitResult.called /\ splitData = <<"a", NL, NL, "b">>
    /\ splitResult.token = <<"a", NL, NL>> /\ splitResult.advance = 3

\* C13: for every data with no two consecutive newlines, eventSplit
\* returns the whole data as one token, consumes all of it, and returns a
\* nil error.
C13_NoBoundaryWholeInput ==
    (splitResult.called /\ Boundaries(splitData) = {}) =>
        /\ splitResult.token = splitData
        /\ splitResult.advance = Len(splitData)
        /\ splitResult.err = "nil"

\* eventSplit was called on "a\nb" before the end of the stream and
\* returned all three bytes.
C13_Witness ==
    /\ splitResult.called /\ ~splitResult.atEOF /\ splitData = <<"a", NL, "b">>
    /\ splitResult.token = <<"a", NL, "b">> /\ splitResult.advance = 3

\* C14: the watching flag starts false, is set true exactly when a watch is
\* established (the step that starts a read loop sets it, and no other
\* step turns it true), and is set false only at the point the read loop's
\* cleanup runs: every step that turns it false is the assignment of a
\* loop's cleanup.
C14_FlagLifecycle ==
    /\ ~watching
    /\ [][(\E c \in Chans : lpc[c] = "none" /\ lpc'[c] = "start") => watching']_vars
    /\ [][(~watching /\ watching') =>
            \E c \in Chans : lpc[c] = "none" /\ lpc'[c] = "start"]_vars
    /\ [][(watching /\ ~watching') =>
            \E c \in Chans : lpc[c] = "c_flip" /\ lpc'[c] = "close"]_vars

\* The sends on the stop signal attempted so far: those in progress (a
\* caller or a cleanup at its send, or past it and before its assignment of
\* the flag) and those received whose sender has gone on.
SendAttempts ==
    Cardinality({t \in env.callers : tpc[t] \in {"s_send", "s_flip"}})
    + Cardinality({c \in Chans : lpc[c] \in {"c_send", "c_flip"}})
    + Cardinality({w \in Chans : sig[w] # NoSignal /\ SenderFlipped(w)})

\* C15: the stop signal gets at most one value per watch lifetime: with one
\* caller, and while one watch only has been established on the client,
\* at most one send on the stop signal is attempted, by the caller's
\* StopWatching or by the loop's cleanup, whatever their interleaving.
C15_OneStopSendPerWatch ==
    (env.callers = {"g1"} /\ Cardinality({c \in Chans : Established(c)}) = 1
       /\ \A t \in env.callers : tpc[t] # "w_set")
    => SendAttempts <= 1

\* C16: a keep-alive frame is discarded: the step of the loop that scans it
\* sends no event, leaves the flag, the callers, the watchers, the bodies
\* and the channels as they are, and the loop goes on to the next Scan.
C16_KeepAliveDiscarded ==
    [][\A c \in Chans :
          (/\ Len(scanned'[c]) = Len(scanned[c]) + 1
           /\ EventType(scanned'[c][Len(scanned'[c])]) = "keep-alive")
          => /\ lpc'[c] = "scan"
             /\ UNCHANGED <<watching, tpc, targ, calls, ret, lpc, wst, sig, body,
                            serr, late, event, received, closes, crashed>>]_vars

\* A keep-alive frame was scanned, nothing was forwarded for it, and the
\* loop went on: the put frame after it was scanned and its event received.
C16_Witness ==
    \E c \in Chans :
        /\ scanned[c] = <<Frame("keep-alive", ""), Frame("put", PayloadA)>>
        /\ received[c] = <<[Type |-> "put", Path |-> "/a", Data |-> "5"]>>
        /\ lpc[c] = "scan" /\ closes[c] = 0 /\ watching

\* The token ends with the blank line that ends a frame.
Complete(token) ==
    Len(token) >= 2 /\ token[Len(token)] = NL /\ token[Len(token) - 1] = NL

\* C17: when a Read returns bytes that stop before a blank line and the
\* stream has not ended, the scanner gets no token from eventSplit and
\* reads on, so the loop is handed whole frames only and what it forwards
\* does not depend on how the stream is cut into reads: every token scanned
\* is a complete frame, and the events forwarded are those of the frames
\* the server wrote and the scanner has consumed.
C17_FramesSurviveChunking ==
    \A c \in Chans :
        /\ \A k \in 1..Len(scanned[c]) : Complete(scanned[c][k])
        /\ crashed = "no" => Sent(c) = Forwarded(scanned[c])

\* C18: teardown is deadlock-free under every interleaving of a caller's
\* StopWatching with the end of the read loop: once nothing more can
\* happen without a new call of the application, no caller is left in the
\* send of StopWatching, no cleanup is left in its send, and every watch
\* that was established has its channel closed.
C18_TeardownDeadlockFree ==
    Settled =>
        /\ \A t \in env.callers : tpc[t] # "s_send"
        /\ \A c \in Chans : lpc[c] # "c_send"
        /\ \A c \in Chans : Established(c) => closes[c] = 1

\* C19: a watch's teardown affects only that watch.  With one caller (the
\* sequence Watch, StopWatching, Watch), the stop signal sent by the
\* cleanup of a read loop is received by the watcher of that loop's own
\* watch only, so the cleanup closes no other watch's response stream and
\* flips the flag of no other watch.
C19_CleanupStopsOwnWatchOnly ==
    env.callers = {"g1"} =>
        \A w \in Chans : sig[w].loop # 0 => sig[w].loop = w

\* C20: no resource outlives its watch.  Once nothing more can happen
\* without a new call of the application, every watch that was established
\* has its response stream closed and its stop-signal watcher ended, after
\* it received its one stop signal.
C20_NoResourceOutlivesWatch ==
    Settled =>
        \A c \in Chans :
            Established(c) =>
                (body[c] = "closed" /\ wst[c] = "done" /\ sig[c] # NoSignal)

====
